---- MODULE Spec2Model ----
(***************************************************************************)
(* State-machine model of src/timelapse_viewer.cpp: class TimelapseViewer  *)
(* (initialize, loadImagesFromDirectory, run, renderCurrentFrame, cleanup, *)
(* destructor) as driven by main().                                        *)
(*                                                                         *)
(* Time points are counted in clock units, UnitsPerMs to the millisecond    *)
(* (the clock is finer than the milliseconds and seconds the program casts *)
(* its durations to).  `clock` is the value of the last read of            *)
(* std::chrono::high_resolution_clock (or the end of the last SDL_Delay);  *)
(* every later read returns clock + d for some d >= 0 drawn from a small   *)
(* set.  SDL_PollEvent is an input: it returns one of the event kinds or   *)
(* reports an empty queue.                                                 *)
(***************************************************************************)
EXTENDS Integers, Sequences, FiniteSets, TLC

VARIABLES
    pc,             \* position of main()/run(): start, inited, loop, poll, update, exit, done,
                    \* or crashed
    window,         \* SDL_Window*   : "null" or "live"
    renderer,       \* SDL_Renderer* : "null" or "live"
    imagePaths,     \* std::vector<std::string>, as the sequence of source ids
    textures,       \* std::vector<SDL_Texture*>, each "null" or "live"
    currentIndex,   \* size_t currentIndex
    running,        \* bool running
    playing,        \* bool playing
    targetFPS,      \* int targetFPS
    windowWidth,    \* int windowWidth
    windowHeight,   \* int windowHeight
    textureSizes,   \* what SDL_QueryTexture reports per slot: <<width, height>>
    hostSize,       \* the window's size on the desktop: <<width, height>>
    screen,         \* the frame last presented: <<index>>, or <<>> before any
    clock,          \* wall clock at its last read, in clock units
    lastFrameTime,  \* local of run()
    frameCount,     \* local of run()
    fpsTimer,       \* local of run()
    warnings,       \* number of "Unable to ..." lines written by the loader
    texDestroys,    \* SDL_DestroyTexture calls, per texture slot
    rendererDestroys, \* SDL_DestroyRenderer calls
    windowDestroys, \* SDL_DestroyWindow calls
    cleanupCalls,   \* calls of cleanup()
    lastEvent,      \* output of the last step: the event it handled, or None
    lastRender,     \* output of the last step: its renderCurrentFrame() call, or <<>>
    titleFps,       \* output of the last step: the FPS put in the window title, or <<>>
    stepRun,        \* history: the current run of accepted manual steps
    toggleRun,      \* history: the current run of toggles and the state it began in
    lastAdvanceAt,  \* history: time of the last clock-driven advance, or <<>>
    tickLog         \* history: the first ticks of the loop, <<time, fired>>

vars == <<pc, window, renderer, imagePaths, textures, currentIndex, running,
          playing, targetFPS, windowWidth, windowHeight, textureSizes, hostSize,
          screen, clock, lastFrameTime, frameCount, fpsTimer,
          warnings, texDestroys, rendererDestroys, windowDestroys, cleanupCalls,
          lastEvent, lastRender, titleFps, stepRun, toggleRun, lastAdvanceAt,
          tickLog>>

----------------------------------------------------------------------------
(* Bounds of the model *)

MaxImages == 3          \* image files found in the directory
UnitsPerMs == 2         \* clock units per millisecond
MaxClock == 12          \* Spec: the clock is not advanced past this many ms
MaxClockFine == 20      \* SpecClock, SpecResume: same, millisecond-grained harness
MaxClockCoarse == 2500  \* SpecFps: same, second-grained harness
MaxFrames == 3          \* cap of frameCount
MaxTicks == 4           \* SpecClock: ticks evaluated (and logged)
MaxExplicitCleanups == 2 \* cleanup() calls made before the destructor's
MaxResumeTicks == 3     \* SpecResume: ticks evaluated (and logged)
MaxFrameDim == 3        \* SpecDraw: small frame widths and heights, in pixels
MaxWindowDim == 3       \* SpecDraw: small window widths and heights, in pixels

(* Program constants *)

DefaultFPS == 240       \* main: int fps = 240
MsPerSecond == 1000     \* 1000 / targetFPS; duration_cast<seconds> of ms
DelayMs == 10           \* SDL_Delay(10)
DefaultWidth == 1280    \* int windowWidth = 1280
DefaultHeight == 720    \* int windowHeight = 720
MantissaBits == 24      \* significand digits of the float type of scaleX, scaleY, scale

None == "none"
NoRender == <<>>
NoTitle == <<>>
NoRun == [dir |-> "none", start |-> 0, count |-> 0]
NoToggleRun == [from |-> <<>>, count |-> 0]
NoAdvance == <<>>
NoScreen == <<>>

EventKinds == {"QUIT", "ESCAPE", "SPACE", "RIGHT", "LEFT", "OTHERKEY", "OTHER", "RESIZE"}
\* sizes the desktop gives the window: at creation, and when the user resizes it
CreatedSizes == {<<DefaultWidth, DefaultHeight>>}
ResizeSizes == {<<DefaultWidth, DefaultHeight>>, <<800, 800>>}
\* sizes of the decoded images
PhotoSizes == {<<4000, 3000>>}
DecodeOutcomes == {"ok", "noSurface", "noTexture"}
InitFailures == {"SDL_Init", "IMG_Init", "CreateWindow", "CreateRenderer", "directory"}
LoopPcs == {"loop", "poll", "update"}

----------------------------------------------------------------------------
(* Pure helpers *)

\* C++ integer division: the quotient truncated toward zero (b # 0).
CDiv(a, b) ==
    IF b > 0
    THEN IF a >= 0 THEN a \div b ELSE -((-a) \div b)
    ELSE IF a >= 0 THEN -(a \div (-b)) ELSE (-a) \div (-b)

NextIndexNoWrap(i, n) == i + 1
\* (currentIndex + 1) % imagePaths.size()
NextIndex(i, n) == (i + 1) % n

PrevIndexClamp(i, n) == IF i = 0 THEN 0 ELSE i - 1
\* (currentIndex + imagePaths.size() - 1) % imagePaths.size()
PrevIndex(i, n) == (i + n - 1) % n

StepAllowedAlways(p) == TRUE
\* if (!playing) guarding both manual steps
StepAllowed(p) == ~p

ToggleSticky(p) == TRUE
\* playing = !playing
Toggle(p) == ~p

\* a time span of k milliseconds, in clock units
Ms(k) == k * UnitsPerMs

\* duration_cast<milliseconds>(currentTime - lastFrameTime).count()
ElapsedMs(currentTime, last) == CDiv(currentTime - last, UnitsPerMs)

MsPerFrameAtLeastOne(fps) ==
    IF CDiv(MsPerSecond, fps) < 1 THEN 1 ELSE CDiv(MsPerSecond, fps)
\* int msPerFrame = 1000 / targetFPS, targetFPS # 0
MsPerFrame(fps) == CDiv(MsPerSecond, fps)

\* values a division by zero may leave in msPerFrame where it does not trap
DivideByZeroValues == {-1, 0, 1}
\* the values 1000 / targetFPS can yield
MsPerFrameOutcomes(fps) == IF fps = 0 THEN DivideByZeroValues ELSE {MsPerFrame(fps)}

AdvanceDueStrict(elapsed, ms) == elapsed > ms
\* if (elapsed >= msPerFrame)
AdvanceDue(elapsed, ms) == elapsed >= ms

AdvancedLastFrameTimeByInterval(currentTime, last, ms) == last + Ms(ms)
\* lastFrameTime = currentTime
AdvancedLastFrameTime(currentTime, last, ms) == currentTime

FpsDurationRounded(currentTime, timer) ==
    CDiv(currentTime - timer + Ms(MsPerSecond) \div 2, Ms(MsPerSecond))
\* duration_cast<seconds>(currentTime - fpsTimer).count()
FpsDuration(currentTime, timer) == CDiv(currentTime - timer, Ms(MsPerSecond))

\* frameCount / fpsDuration
MeasuredFps(count, dur) == CDiv(count, dur)

\* A positive value of type float is [m, e], standing for m * 2^(-e) with
\* 2^(MantissaBits-1) <= m < 2^MantissaBits; every operation rounds its exact
\* result to the nearest such value, ties to the even mantissa.
MinMantissa == 2^(MantissaBits - 1)
HalfWord == 2^(MantissaBits \div 2)

\* mantissa m + 1 carried into the next binade
Normalized(m, e) ==
    IF m = 2 * MinMantissa THEN [m |-> MinMantissa, e |-> e - 1] ELSE [m |-> m, e |-> e]

\* round to nearest, ties to even: q with remainder rem of a unit whose half is half
RoundedUp(q, rem, half) == rem > half \/ (rem = half /\ q % 2 = 1)

\* long division a / b carried to MantissaBits quotient bits: q + r/b at scale 2^e
RECURSIVE FloatDigits(_, _, _, _)
FloatDigits(q, r, b, e) ==
    IF q >= MinMantissa
    THEN [q |-> q, r |-> r, e |-> e]
    ELSE IF 2 * r >= b
         THEN FloatDigits(2 * q + 1, 2 * r - b, b, e + 1)
         ELSE FloatDigits(2 * q, 2 * r, b, e + 1)

\* static_cast<float>(a) / b, for ints 0 < a, b < HalfWord
\* (here and below a value drawn from a singleton set is an intermediate
\* result computed once)
FloatQuotient(a, b) ==
    LET Rounded(d) ==
            Normalized(IF RoundedUp(d.q, 2 * d.r, b) THEN d.q + 1 ELSE d.q, d.e)
    IN  CHOOSE f \in {Rounded(d) : d \in {FloatDigits(a \div b, a % b, b, 0)}} : TRUE

\* number of binary digits of n >= 0
RECURSIVE BitLength(_)
BitLength(n) == IF n = 0 THEN 0 ELSE 1 + BitLength(n \div 2)

\* textureWidth * scale: the int converted to float, the product rounded.
\* t * f.m = H * HalfWord + L is cut to its leading MantissaBits digits, s dropped
FloatProduct(t, f) ==
    LET Half == MantissaBits \div 2
        Cut(H, L, s) ==
            LET q == IF s <= Half
                     THEN H * 2^(Half - s) + L \div 2^s
                     ELSE H \div 2^(s - Half)
                rem == IF s <= Half
                       THEN L % 2^s
                       ELSE (H % 2^(s - Half)) * HalfWord + L
            IN  Normalized(IF s > 0 /\ RoundedUp(q, 2 * rem, 2^s) THEN q + 1 ELSE q,
                           f.e - s)
        Product(hi, lo) ==
            CHOOSE p \in {Cut(H, lo % HalfWord, BitLength(H) - Half) :
                          H \in {hi + lo \div HalfWord}} : TRUE
    IN  CHOOSE p \in {Product(hi, lo) : hi \in {t * (f.m \div HalfWord)},
                                       lo \in {t * (f.m % HalfWord)}} : TRUE

\* std::min(scaleX, scaleY) of two positive floats
FloatMin(f, g) ==
    IF f.e > g.e \/ (f.e = g.e /\ f.m <= g.m) THEN f ELSE g

\* static_cast<int>(f): the fraction dropped
FloatToInt(f) ==
    IF f.e >= MantissaBits THEN 0
    ELSE IF f.e >= 0 THEN f.m \div 2^(f.e)
    ELSE f.m * 2^(-f.e)

\* renderCurrentFrame(): the destination rectangle of the texture
RenderRect(textureWidth, textureHeight, winWidth, winHeight) ==
    LET Rect(renderWidth, renderHeight) ==
            [x |-> CDiv(winWidth - renderWidth, 2),
             y |-> CDiv(winHeight - renderHeight, 2),
             w |-> renderWidth, h |-> renderHeight]
        Scaled(scale) ==
            CHOOSE r \in {Rect(renderWidth, renderHeight) :
                          renderWidth \in {FloatToInt(FloatProduct(textureWidth, scale))},
                          renderHeight \in {FloatToInt(FloatProduct(textureHeight, scale))}} : TRUE
    IN  CHOOSE r \in {Scaled(FloatMin(scaleX, scaleY)) :
                      scaleX \in {FloatQuotient(winWidth, textureWidth)},
                      scaleY \in {FloatQuotient(winHeight, textureHeight)}} : TRUE

NoRect == [x |-> 0, y |-> 0, w |-> 0, h |-> 0]

RenderBeforeUpdate(idx, tex, sizes, winWidth, winHeight) ==
    LET old == (idx + Len(tex) - 1) % Len(tex)
    IN  IF tex[old + 1] = "null"
        THEN <<[index |-> old, drawn |-> FALSE, rect |-> NoRect]>>
        ELSE <<[index |-> old, drawn |-> TRUE,
                rect |-> RenderRect(sizes[old + 1][1], sizes[old + 1][2],
                                    winWidth, winHeight)]>>
\* renderCurrentFrame(): the early return, else clear, copy and present
Render(idx, tex, sizes, winWidth, winHeight) ==
    IF idx >= Len(tex) \/ tex[idx + 1] = "null"
    THEN <<[index |-> idx, drawn |-> FALSE, rect |-> NoRect]>>
    ELSE <<[index |-> idx, drawn |-> TRUE,
            rect |-> RenderRect(sizes[idx + 1][1], sizes[idx + 1][2], winWidth, winHeight)]>>

PresentedCleared(idx, tex, scr) ==
    IF idx >= Len(tex) \/ tex[idx + 1] = "null" THEN NoScreen ELSE <<idx>>
\* what the window shows after renderCurrentFrame(): the early return leaves
\* the frame presented before, SDL_RenderPresent shows the new one
Presented(idx, tex, scr) ==
    IF idx >= Len(tex) \/ tex[idx + 1] = "null" THEN scr ELSE <<idx>>

\* textures after the loading loop: a slot stays nullptr unless both
\* IMG_Load and SDL_CreateTextureFromSurface succeed
LoadedTextures(dec) ==
    [i \in 1..Len(dec) |-> IF dec[i] = "ok" THEN "live" ELSE "null"]

\* one "Unable to load image" or "Unable to create texture" line per failure
LoadWarnings(dec) == Cardinality({i \in 1..Len(dec) : dec[i] # "ok"})

ReleasedHandleKept(h) == h
\* if (h) { destroy(h); h = nullptr; }
ReleasedHandle(h) == "null"

\* the destroy call made for a handle by cleanup(): one if it is non-null
DestroyCalls(h) == IF h # "null" THEN 1 ELSE 0

Live(tex) == {i \in 1..Len(tex) : tex[i] = "live"}

----------------------------------------------------------------------------
(* Initial state: the members' default initializers *)

Init ==
    /\ pc = "start"
    /\ window = "null"
    /\ renderer = "null"
    /\ imagePaths = <<>>
    /\ textures = <<>>
    /\ currentIndex = 0
    /\ running = TRUE
    /\ playing = FALSE
    /\ targetFPS = DefaultFPS
    /\ windowWidth = DefaultWidth
    /\ windowHeight = DefaultHeight
    /\ textureSizes = <<>>
    /\ hostSize = <<DefaultWidth, DefaultHeight>>
    /\ screen = NoScreen
    /\ clock = 0
    /\ lastFrameTime = 0
    /\ frameCount = 0
    /\ fpsTimer = 0
    /\ warnings = 0
    /\ texDestroys = <<>>
    /\ rendererDestroys = 0
    /\ windowDestroys = 0
    /\ cleanupCalls = 0
    /\ lastEvent = None
    /\ lastRender = NoRender
    /\ titleFps = NoTitle
    /\ stepRun = NoRun
    /\ toggleRun = NoToggleRun
    /\ lastAdvanceAt = NoAdvance
    /\ tickLog = <<>>

NoOutput ==
    /\ lastEvent' = None
    /\ lastRender' = NoRender
    /\ titleFps' = NoTitle

----------------------------------------------------------------------------
(* main() calling initialize(): it fails at one of the collaborators, or   *)
(* reaches loadImagesFromDirectory with n image files, each decoding or not *)
(* and its image of size sz, in a window the desktop gave size ws          *)
(* (FpsVals, Counts, Outcomes, WinSizes, TexSizes: the inputs a harness    *)
(* draws from)                                                             *)

Initialize(FpsVals, Counts, Outcomes, WinSizes, TexSizes) ==
    /\ pc = "start"
    /\ \E fps \in FpsVals, ws \in WinSizes :
        /\ targetFPS' = fps
        /\ \/ \E f \in InitFailures :
                /\ window' = IF f \in {"CreateRenderer", "directory"} THEN "live" ELSE "null"
                /\ renderer' = IF f = "directory" THEN "live" ELSE "null"
                /\ hostSize' = IF f \in {"CreateRenderer", "directory"} THEN ws ELSE hostSize
                /\ windowWidth' = IF f = "directory" THEN ws[1] ELSE windowWidth
                /\ windowHeight' = IF f = "directory" THEN ws[2] ELSE windowHeight
                /\ pc' = "exit"
                /\ UNCHANGED <<imagePaths, textures, textureSizes, warnings, texDestroys>>
           \/ \E n \in Counts :
                /\ window' = "live"
                /\ renderer' = "live"
                /\ hostSize' = ws
                /\ windowWidth' = ws[1]
                /\ windowHeight' = ws[2]
                /\ IF n = 0
                   THEN /\ pc' = "exit"
                        /\ UNCHANGED <<imagePaths, textures, textureSizes, warnings,
                                       texDestroys>>
                   ELSE \E dec \in [1..n -> Outcomes], sz \in TexSizes :
                        /\ imagePaths' = [i \in 1..n |-> i]
                        /\ textures' = LoadedTextures(dec)
                        /\ textureSizes' = [i \in 1..n |-> sz]
                        /\ warnings' = LoadWarnings(dec)
                        /\ texDestroys' = [i \in 1..n |-> 0]
                        /\ pc' = "inited"
    /\ NoOutput
    /\ UNCHANGED <<currentIndex, running, playing, screen, clock, lastFrameTime,
                   frameCount, fpsTimer, rendererDestroys, windowDestroys, cleanupCalls,
                   stepRun, toggleRun, lastAdvanceAt, tickLog>>

(* run(): the guard and the locals set before the loop *)
RunEnter ==
    /\ pc = "inited"
    /\ IF imagePaths = <<>> \/ window = "null" \/ renderer = "null"
       THEN /\ pc' = "exit"
            /\ UNCHANGED <<lastFrameTime, frameCount, fpsTimer>>
       ELSE /\ pc' = "loop"
            /\ lastFrameTime' = clock
            /\ frameCount' = 0
            /\ fpsTimer' = clock
    /\ NoOutput
    /\ UNCHANGED <<window, renderer, imagePaths, textures, currentIndex, running,
                   playing, targetFPS, windowWidth, windowHeight,
                   textureSizes, hostSize, screen, clock, warnings, texDestroys, rendererDestroys,
                   windowDestroys, cleanupCalls, stepRun, toggleRun, lastAdvanceAt,
                   tickLog>>

LoopConditionAlways(r) == TRUE
\* while (running)
LoopCondition(r) == r

LoopTopReleasing ==
    /\ pc = "loop"
    /\ pc' = IF LoopCondition(running) THEN "poll" ELSE "exit"
    /\ textures' = IF running THEN textures
                   ELSE [i \in 1..Len(textures) |-> ReleasedHandle(textures[i])]
    /\ texDestroys' = IF running THEN texDestroys
                      ELSE [i \in 1..Len(textures) |->
                                texDestroys[i] + DestroyCalls(textures[i])]
    /\ NoOutput
    /\ UNCHANGED <<window, renderer, imagePaths, currentIndex, running,
                   playing, targetFPS, windowWidth, windowHeight,
                   textureSizes, hostSize, screen, clock, lastFrameTime, frameCount,
                   fpsTimer, warnings, rendererDestroys, windowDestroys,
                   cleanupCalls, stepRun, toggleRun, lastAdvanceAt, tickLog>>
(* the test of while (running): into the body, or out of run() *)
LoopTop ==
    /\ pc = "loop"
    /\ pc' = IF LoopCondition(running) THEN "poll" ELSE "exit"
    /\ NoOutput
    /\ UNCHANGED <<window, renderer, imagePaths, textures, currentIndex, running,
                   playing, targetFPS, windowWidth, windowHeight,
                   textureSizes, hostSize, screen, clock, lastFrameTime, frameCount, fpsTimer,
                   warnings, texDestroys, rendererDestroys, windowDestroys,
                   cleanupCalls, stepRun, toggleRun, lastAdvanceAt, tickLog>>

\* the run of accepted manual steps after one more in direction dir
StepRunAfter(dir, n) ==
    IF stepRun.dir = dir /\ stepRun.count < n
    THEN [stepRun EXCEPT !.count = @ + 1]
    ELSE [dir |-> dir, start |-> currentIndex, count |-> 1]

\* the run of toggles after one more: a run is at most two toggles long
ToggleRunAfter ==
    IF toggleRun.count = 1
    THEN [toggleRun EXCEPT !.count = 2]
    ELSE [from |-> <<currentIndex, playing>>, count |-> 1]

IsQuitCloseOnly(e) == e = "QUIT"
\* e.type == SDL_QUIT, or SDL_KEYDOWN with SDLK_ESCAPE
IsQuit(e) == e \in {"QUIT", "ESCAPE"}

LastFrameTimeResetOnToggle(e, last, now) == IF e = "SPACE" THEN now ELSE last
\* lastFrameTime after the handling of event e: no case of the switch assigns it
LastFrameTimeAfterEvent(e, last, now) == last

(* SDL_PollEvent returned event e: the body of the inner while.  A RESIZE  *)
(* event reports that the desktop gave the window a new size.              *)
PollEvent(e) ==
    /\ pc = "poll"
    /\ lastEvent' = e
    /\ titleFps' = NoTitle
    /\ IF e = "RESIZE"
       THEN \E sz \in ResizeSizes : hostSize' = sz
       ELSE UNCHANGED hostSize
    /\ CASE IsQuit(e) ->
              /\ running' = FALSE
              /\ lastRender' = NoRender
              /\ UNCHANGED <<playing, currentIndex, screen, stepRun, toggleRun>>
         [] e = "SPACE" ->
              /\ playing' = Toggle(playing)
              /\ toggleRun' = ToggleRunAfter
              /\ stepRun' = NoRun
              /\ lastRender' = NoRender
              /\ UNCHANGED <<running, currentIndex, screen>>
         [] e = "RIGHT" ->
              /\ IF StepAllowed(playing)
                 THEN /\ currentIndex' = NextIndex(currentIndex, Len(imagePaths))
                      /\ lastRender' = Render(currentIndex', textures, textureSizes,
                                              windowWidth, windowHeight)
                      /\ screen' = Presented(currentIndex', textures, screen)
                      /\ stepRun' = StepRunAfter("fwd", Len(imagePaths))
                      /\ toggleRun' = NoToggleRun
                 ELSE /\ lastRender' = NoRender
                      /\ UNCHANGED <<currentIndex, screen, stepRun, toggleRun>>
              /\ UNCHANGED <<running, playing>>
         [] e = "LEFT" ->
              /\ IF StepAllowed(playing)
                 THEN /\ currentIndex' = PrevIndex(currentIndex, Len(imagePaths))
                      /\ lastRender' = Render(currentIndex', textures, textureSizes,
                                              windowWidth, windowHeight)
                      /\ screen' = Presented(currentIndex', textures, screen)
                      /\ stepRun' = StepRunAfter("bwd", Len(imagePaths))
                      /\ toggleRun' = NoToggleRun
                 ELSE /\ lastRender' = NoRender
                      /\ UNCHANGED <<currentIndex, screen, stepRun, toggleRun>>
              /\ UNCHANGED <<running, playing>>
         [] OTHER ->
              /\ lastRender' = NoRender
              /\ UNCHANGED <<running, playing, currentIndex, screen, stepRun, toggleRun>>
    /\ lastFrameTime' = LastFrameTimeAfterEvent(e, lastFrameTime, clock)
    /\ UNCHANGED <<pc, window, renderer, imagePaths, textures, targetFPS, windowWidth,
                   windowHeight, textureSizes, clock, frameCount, fpsTimer, warnings,
                   texDestroys, rendererDestroys, windowDestroys, cleanupCalls,
                   lastAdvanceAt, tickLog>>

(* SDL_PollEvent returned 0: the inner while ends *)
PollEmpty ==
    /\ pc = "poll"
    /\ pc' = "update"
    /\ NoOutput
    /\ UNCHANGED <<window, renderer, imagePaths, textures, currentIndex, running,
                   playing, targetFPS, windowWidth, windowHeight,
                   textureSizes, hostSize, screen, clock, lastFrameTime, frameCount, fpsTimer,
                   warnings, texDestroys, rendererDestroys, windowDestroys,
                   cleanupCalls, stepRun, toggleRun, lastAdvanceAt, tickLog>>

(* if (playing) { ... }: the clock is read d ms after its last read.       *)
(* logCap > 0 makes the harness log its first logCap ticks and stop there. *)
(* The caps on the clock and on frameCount end the exploration of a run    *)
(* that is still going; the last iteration, running already false, is      *)
(* never cut short.  With targetFPS = 0 the division 1000 / targetFPS has  *)
(* no defined result: the process is killed by the trap, or the division   *)
(* yields some value and the tick goes on with it.                         *)
Tick(D, maxClock, logCap) ==
    /\ pc = "update"
    /\ playing
    /\ running => frameCount < MaxFrames
    /\ logCap > 0 => Len(tickLog) < logCap
    /\ \/ /\ targetFPS = 0
          /\ pc' = "crashed"
          /\ NoOutput
          /\ UNCHANGED <<currentIndex, screen, clock, lastFrameTime, frameCount,
                         fpsTimer, stepRun, toggleRun, lastAdvanceAt, tickLog>>
       \/ \E d \in D, msPerFrame \in MsPerFrameOutcomes(targetFPS) :
            LET currentTime == clock + d
                elapsed == ElapsedMs(currentTime, lastFrameTime)
                due == AdvanceDue(elapsed, msPerFrame)
                count == IF due THEN frameCount + 1 ELSE frameCount
                fpsDuration == FpsDuration(currentTime, fpsTimer)
            IN  /\ running => currentTime <= Ms(maxClock)
                /\ clock' = currentTime
                /\ IF due
                   THEN /\ lastFrameTime' = AdvancedLastFrameTime(currentTime, lastFrameTime,
                                                                  msPerFrame)
                        /\ currentIndex' = NextIndex(currentIndex, Len(imagePaths))
                        /\ lastRender' = Render(currentIndex', textures, textureSizes,
                                                windowWidth, windowHeight)
                        /\ screen' = Presented(currentIndex', textures, screen)
                        /\ lastAdvanceAt' = <<currentTime>>
                   ELSE /\ lastRender' = NoRender
                        /\ UNCHANGED <<lastFrameTime, currentIndex, screen, lastAdvanceAt>>
                /\ IF fpsDuration >= 1
                   THEN /\ titleFps' = <<MeasuredFps(count, fpsDuration)>>
                        /\ frameCount' = 0
                        /\ fpsTimer' = currentTime
                   ELSE /\ titleFps' = NoTitle
                        /\ frameCount' = count
                        /\ UNCHANGED fpsTimer
                /\ tickLog' = IF logCap > 0 THEN Append(tickLog, <<currentTime, due>>)
                              ELSE tickLog
                /\ pc' = "loop"
                /\ lastEvent' = None
                /\ stepRun' = NoRun
                /\ toggleRun' = NoToggleRun
    /\ UNCHANGED <<window, renderer, imagePaths, textures, running, playing,
                   targetFPS, windowWidth, windowHeight, textureSizes, hostSize,
                   warnings, texDestroys, rendererDestroys, windowDestroys,
                   cleanupCalls>>

(* else { SDL_Delay(10); }: returns after at least DelayMs *)
Delay(D, maxClock) ==
    /\ pc = "update"
    /\ ~playing
    /\ \E d \in D :
        /\ d >= Ms(DelayMs)
        /\ running => clock + d <= Ms(maxClock)
        /\ clock' = clock + d
    /\ pc' = "loop"
    /\ NoOutput
    /\ UNCHANGED <<window, renderer, imagePaths, textures, currentIndex, running,
                   playing, targetFPS, windowWidth, windowHeight,
                   textureSizes, hostSize, screen, lastFrameTime, frameCount, fpsTimer,
                   warnings, texDestroys, rendererDestroys, windowDestroys,
                   cleanupCalls, stepRun, toggleRun, lastAdvanceAt, tickLog>>

(* cleanup(): textures, then renderer, then window *)
Cleanup ==
    /\ texDestroys' = [i \in 1..Len(textures) |-> texDestroys[i] + DestroyCalls(textures[i])]
    /\ textures' = [i \in 1..Len(textures) |-> ReleasedHandle(textures[i])]
    /\ rendererDestroys' = rendererDestroys + DestroyCalls(renderer)
    /\ renderer' = ReleasedHandle(renderer)
    /\ windowDestroys' = windowDestroys + DestroyCalls(window)
    /\ window' = ReleasedHandle(window)
    /\ cleanupCalls' = cleanupCalls + 1

(* a caller's own cleanup() once run() has returned or initialize() failed *)
ExplicitCleanup ==
    /\ pc = "exit"
    /\ cleanupCalls < MaxExplicitCleanups
    /\ Cleanup
    /\ NoOutput
    /\ UNCHANGED <<pc, imagePaths, currentIndex, running, playing, targetFPS, windowWidth, windowHeight,
                   textureSizes, hostSize, screen, clock,
                   lastFrameTime, frameCount, fpsTimer, warnings, stepRun,
                   toggleRun, lastAdvanceAt, tickLog>>

(* ~TimelapseViewer() as main() returns *)
Destructor ==
    /\ pc = "exit"
    /\ pc' = "done"
    /\ Cleanup
    /\ NoOutput
    /\ UNCHANGED <<imagePaths, currentIndex, running, playing, targetFPS, windowWidth, windowHeight,
                   textureSizes, hostSize, screen, clock,
                   lastFrameTime, frameCount, fpsTimer, warnings, stepRun,
                   toggleRun, lastAdvanceAt, tickLog>>

----------------------------------------------------------------------------
(* Specifications: the same program under several input harnesses *)

\* controller and lifecycle: every event kind, default frame rate, coarse clock
Deltas == {0, Ms(4), Ms(DelayMs)}
Next ==
    \/ Initialize({DefaultFPS}, 0..MaxImages, DecodeOutcomes, CreatedSizes, PhotoSizes)
    \/ RunEnter
    \/ LoopTop
    \/ \E e \in EventKinds : PollEvent(e)
    \/ PollEmpty
    \/ Tick(Deltas, MaxClock, 0)
    \/ Delay(Deltas, MaxClock)
    \/ ExplicitCleanup
    \/ Destructor

Spec == Init /\ [][Next]_vars

\* the playback clock at millisecond grain, its first MaxTicks ticks logged
FineDeltas == {0, 1, Ms(2), Ms(3), Ms(4), Ms(DelayMs)}
FineFps == {DefaultFPS, 500, 2000}
ClockEvents == {"SPACE", "QUIT"}
ClockCounts == {1, 3}
NextClock ==
    \/ Initialize(FineFps, ClockCounts, {"ok"}, CreatedSizes, PhotoSizes)
    \/ RunEnter
    \/ LoopTop
    \/ \E e \in ClockEvents : PollEvent(e)
    \/ PollEmpty
    \/ Tick(FineDeltas, MaxClockFine, MaxTicks)
    \/ Delay(FineDeltas, MaxClockFine)
    \/ ExplicitCleanup
    \/ Destructor

SpecClock == Init /\ [][NextClock]_vars

\* the measurement window at second grain
CoarseDeltas == {0, Ms(250), Ms(500), Ms(1000)}
CoarseFps == {1, 2, 2000}
NextFps ==
    \/ Initialize(CoarseFps, ClockCounts, {"ok"}, CreatedSizes, PhotoSizes)
    \/ RunEnter
    \/ LoopTop
    \/ \E e \in ClockEvents : PollEvent(e)
    \/ PollEmpty
    \/ Tick(CoarseDeltas, MaxClockCoarse, 0)
    \/ Delay(CoarseDeltas, MaxClockCoarse)
    \/ ExplicitCleanup
    \/ Destructor

SpecFps == Init /\ [][NextFps]_vars

\* the presenter: frames and windows of every small size and of photo size,
\* one image, drawn by manual steps and by ticks
DrawFrameSizes ==
    ((1..MaxFrameDim) \X (1..MaxFrameDim)) \cup {<<1, 11>>, <<4000, 3000>>}
DrawWindowSizes ==
    ((1..MaxWindowDim) \X (1..MaxWindowDim)) \cup {<<2, 13>>, <<800, 800>>}
DrawEvents == {"RIGHT", "LEFT", "SPACE", "QUIT"}
DrawDeltas == {Ms(DelayMs)}
NextDraw ==
    \/ Initialize({DefaultFPS}, {1}, {"ok"}, DrawWindowSizes, DrawFrameSizes)
    \/ RunEnter
    \/ LoopTop
    \/ \E e \in DrawEvents : PollEvent(e)
    \/ PollEmpty
    \/ Tick(DrawDeltas, MaxClock, 0)
    \/ Delay(DrawDeltas, MaxClock)
    \/ ExplicitCleanup
    \/ Destructor

SpecDraw == Init /\ [][NextDraw]_vars

\* the command line: values of --fps that std::stoi parses and main passes on
ArgFps == {-1000, -1, 0, 1, 1000, 1001, 2000}
ArgDeltas == {0, 1, Ms(1), Ms(DelayMs)}
NextArgs ==
    \/ Initialize(ArgFps, {1, 2}, {"ok"}, CreatedSizes, PhotoSizes)
    \/ RunEnter
    \/ LoopTop
    \/ \E e \in ClockEvents : PollEvent(e)
    \/ PollEmpty
    \/ Tick(ArgDeltas, MaxClock, 0)
    \/ Delay(ArgDeltas, MaxClock)
    \/ ExplicitCleanup
    \/ Destructor

SpecArgs == Init /\ [][NextArgs]_vars

\* resuming playback: two images, pauses, toggles and manual steps between
\* the first MaxResumeTicks ticks
ResumeEvents == {"SPACE", "RIGHT", "QUIT"}
ResumeDeltas == {0, 1, Ms(4), Ms(DelayMs)}
NextResume ==
    \/ Initialize({DefaultFPS}, {2}, {"ok"}, CreatedSizes, PhotoSizes)
    \/ RunEnter
    \/ LoopTop
    \/ \E e \in ResumeEvents : PollEvent(e)
    \/ PollEmpty
    \/ Tick(ResumeDeltas, MaxClockFine, MaxResumeTicks)
    \/ Delay(ResumeDeltas, MaxClockFine)
    \/ ExplicitCleanup
    \/ Destructor

SpecResume == Init /\ [][NextResume]_vars

\* the loop under the scheduling of a sequential program: the thread in run()
\* goes on to its next statement, and the event queue, holding finitely many
\* events, is found empty after finitely many polls
LiveEvents == {"QUIT", "ESCAPE", "SPACE", "RIGHT"}
LiveCounts == {1, 2}
LiveDeltas == {0, Ms(DelayMs)}
NextLive ==
    \/ Initialize({DefaultFPS}, LiveCounts, {"ok"}, CreatedSizes, PhotoSizes)
    \/ RunEnter
    \/ LoopTop
    \/ \E e \in LiveEvents : PollEvent(e)
    \/ PollEmpty
    \/ Tick(LiveDeltas, MaxClock, 0)
    \/ Delay(LiveDeltas, MaxClock)
    \/ ExplicitCleanup
    \/ Destructor

SpecLive ==
    /\ Init
    /\ [][NextLive]_vars
    /\ WF_vars(LoopTop)
    /\ WF_vars(PollEmpty)
    /\ WF_vars(Tick(LiveDeltas, MaxClock, 0))
    /\ WF_vars(Delay(LiveDeltas, MaxClock))

----------------------------------------------------------------------------
(* Properties *)

NumImages == Len(imagePaths)
InLoop == pc \in LoopPcs
\* the step being taken is the clock branch of one loop iteration
TickStep == pc = "update" /\ playing /\ pc' = "loop"
\* the step being taken made the clock-driven advance
Fired == lastRender' # NoRender

\* C1: in every state of the playback loop the sequence length is at least 1
\* and 0 <= currentIndex < length, whatever events, ticks and quits came before.
C1_IndexInRange ==
    InLoop => /\ NumImages >= 1
              /\ currentIndex >= 0
              /\ currentIndex < NumImages

\* a backward step from index 0 wrapped to the last index, after a tick had
\* already advanced the index and a quit had been handled
C1_Witness ==
    /\ pc = "poll"
    /\ lastEvent = "LEFT"
    /\ NumImages >= 2
    /\ stepRun = [dir |-> "bwd", start |-> 0, count |-> 1]
    /\ currentIndex = NumImages - 1
    /\ lastAdvanceAt # NoAdvance
    /\ ~running

\* C2: a run of N accepted manual steps in one direction (forward or backward),
\* N the sequence length, ends at the index it started from.
C2_StepsWrapAround ==
    (InLoop /\ stepRun.count = NumImages) => currentIndex = stepRun.start

\* three backward steps over three images, started at index 1, are back at 1
C2_Witness ==
    /\ InLoop
    /\ NumImages >= 3
    /\ stepRun = [dir |-> "bwd", start |-> 1, count |-> NumImages]
    /\ currentIndex = 1

\* C3: a RIGHT or LEFT key handled while playing changes neither currentIndex
\* nor playing and calls no render.
C3_StepIgnoredWhilePlaying ==
    [][(pc = "poll" /\ playing /\ lastEvent' \in {"RIGHT", "LEFT"})
        => /\ currentIndex' = currentIndex
           /\ playing' = playing
           /\ lastRender' = NoRender]_vars

\* a RIGHT key was just handled in the Playing state
C3_Witness ==
    /\ pc = "poll"
    /\ playing
    /\ lastEvent = "RIGHT"
    /\ NumImages >= 2

\* C4: within a run of toggles with no tick and no accepted step between them,
\* one toggle flips playing and keeps currentIndex, and two toggles restore the
\* (currentIndex, playing) the run began in.
C4_ToggleTwiceRestores ==
    /\ toggleRun.count = 1 =>
          <<currentIndex, playing>> = <<toggleRun.from[1], ~toggleRun.from[2]>>
    /\ toggleRun.count = 2 =>
          <<currentIndex, playing>> = toggleRun.from

\* Paused -> Playing -> Paused at index 1: the second SPACE was just handled
C4_Witness ==
    /\ pc = "poll"
    /\ lastEvent = "SPACE"
    /\ toggleRun = [from |-> <<1, FALSE>>, count |-> 2]
    /\ currentIndex = 1
    /\ ~playing

\* C5: once a Quit has been processed (running is false) no later step changes
\* currentIndex or playing or calls a render.
C5_NoTransitionAfterQuit ==
    [][~running => /\ currentIndex' = currentIndex
                   /\ playing' = playing
                   /\ lastRender' = NoRender]_vars

\* C6: a tick evaluated while playing advances exactly when the time since the
\* last advance is at least intervalMs = 1000 div F; on firing lastFrameTime
\* becomes the time just read and the index moves to the next frame, otherwise
\* both stay.  With F = 240 (intervalMs = 4), the loop entered at time 0 and
\* ticks at 0, 3, 5 and 9 ms, the advances are those at 5 and 9.
LogTimes == [i \in 1..Len(tickLog) |-> tickLog[i][1]]
LogFired == [i \in 1..Len(tickLog) |-> tickLog[i][2]]
C6_Example ==
    (targetFPS = 240 /\ LogTimes = <<0, Ms(3), Ms(5), Ms(9)>>)
        => /\ MsPerSecond \div targetFPS = 4
           /\ LogFired = <<FALSE, FALSE, TRUE, TRUE>>
           /\ Cardinality({i \in 1..Len(tickLog) : LogFired[i]}) = 2
C6_TickFiresWhenDue ==
    [][/\ TickStep =>
            /\ Fired <=> (clock' - lastFrameTime >= Ms(MsPerSecond \div targetFPS))
            /\ Fired => /\ lastFrameTime' = clock'
                        /\ currentIndex' = (currentIndex + 1) % NumImages
            /\ ~Fired => /\ lastFrameTime' = lastFrameTime
                         /\ currentIndex' = currentIndex
       /\ C6_Example']_vars

\* F = 240 and the four ticks of the example were evaluated: 2 advances
C6_Witness ==
    /\ targetFPS = 240
    /\ tickLog = <<<<0, FALSE>>, <<Ms(3), FALSE>>, <<Ms(5), TRUE>>, <<Ms(9), TRUE>>>>
    /\ lastFrameTime = Ms(9)

\* C7: one tick moves the index by at most one frame however long the elapsed
\* time, and with intervalMs >= 1 a clock-driven advance comes at least
\* intervalMs after the previous one.
C7_NoCatchUpBurst ==
    [][TickStep =>
          /\ \/ currentIndex' = currentIndex
             \/ currentIndex' = (currentIndex + 1) % NumImages
          /\ (Fired /\ lastAdvanceAt # NoAdvance /\ MsPerSecond \div targetFPS >= 1)
                => clock' - lastAdvanceAt[1] >= Ms(MsPerSecond \div targetFPS)]_vars

\* overload: an advance came 10 ms (five intervals of 2 ms) after the previous
\* one and moved the index by one frame of three
C7_Witness ==
    /\ targetFPS = 500
    /\ NumImages >= 3
    /\ Len(tickLog) >= 2
    /\ tickLog[1] = <<0, FALSE>>
    /\ tickLog[2] = <<Ms(2), TRUE>>
    /\ \E i \in 2..Len(tickLog) - 1 :
          /\ tickLog[i][2] /\ tickLog[i + 1][2]
          /\ tickLog[i + 1][1] - tickLog[i][1] >= Ms(10)
          /\ i + 1 = Len(tickLog)
          /\ lastAdvanceAt = <<tickLog[i + 1][1]>>

\* C8 as stated: the reported FPS is the number of advances of the window
\* divided by its real duration in seconds.
C8_FpsOverRealDuration ==
    [][(TickStep /\ titleFps' # NoTitle) =>
          LET count == frameCount + (IF Fired THEN 1 ELSE 0)
          IN  titleFps'[1] = (count * Ms(MsPerSecond)) \div (clock' - fpsTimer)]_vars

\* C8 (amended): a tick closes the window exactly when at least one whole second
\* has passed since the window started; it then reports the advance count
\* integer-divided by the duration truncated to whole seconds (never 0) and
\* resets the counter and the window start; a shorter window reports nothing.
C8_FpsOverWholeSeconds ==
    [][TickStep =>
          LET count == frameCount + (IF Fired THEN 1 ELSE 0)
              wholeSeconds == (clock' - fpsTimer) \div Ms(MsPerSecond)
          IN  IF wholeSeconds >= 1
              THEN /\ titleFps' = <<count \div wholeSeconds>>
                   /\ frameCount' = 0
                   /\ fpsTimer' = clock'
              ELSE /\ titleFps' = NoTitle
                   /\ frameCount' = count
                   /\ fpsTimer' = fpsTimer]_vars

\* the first window closed after 1.5 s with 3 advances counted: 3 is reported
C8_Witness ==
    /\ pc = "loop"
    /\ titleFps = <<3>>
    /\ clock = Ms(1500)
    /\ fpsTimer = Ms(1500)
    /\ frameCount = 0

\* C9: after a successful load the sequence length (the N of the wrap-around) is
\* the number k > 0 of sources that decoded, with one warning per failed source;
\* if no source decodes, initialization fails and the loop is never entered.
C9_LoadKeepsDecodedOnly ==
    (pc = "inited" \/ InLoop) =>
        /\ Cardinality(Live(textures)) >= 1
        /\ NumImages = Cardinality(Live(textures))

\* C10: over any number of cleanup() calls, after a complete or a partial
\* initialization, each texture, the renderer and the window are destroyed at
\* most once, and once cleanup() has run every handle is null.
C10_ReleaseOnce ==
    /\ \A i \in 1..Len(textures) : texDestroys[i] <= 1
    /\ rendererDestroys <= 1
    /\ windowDestroys <= 1
    /\ cleanupCalls >= 1 =>
          /\ \A i \in 1..Len(textures) : textures[i] = "null"
          /\ renderer = "null"
          /\ window = "null"

\* two explicit cleanup() calls and the destructor's, over a loaded sequence
\* with one decoded and one failed source
C10_Witness ==
    /\ pc = "done"
    /\ cleanupCalls >= 3
    /\ \E i \in 1..Len(textures) : texDestroys[i] = 1
    /\ \E i \in 1..Len(textures) : texDestroys[i] = 0
    /\ rendererDestroys = 1
    /\ windowDestroys = 1

\* the rectangle the aspect-preserving fit defines for a frame fw x fh in a
\* viewport vw x vh: s = min(vw/fw, vh/fh) as a rational, sizes truncated
FitRect(fw, fh, vw, vh) ==
    LET w == IF vw * fh <= vh * fw THEN vw ELSE (fw * vh) \div fh
        h == IF vw * fh <= vh * fw THEN (fh * vw) \div fw ELSE vh
    IN  [x |-> (vw - w) \div 2, y |-> (vh - h) \div 2, w |-> w, h |-> h]

\* C11: every draw of a frame fw x fh into a viewport vw x vh uses the rectangle
\* of size (trunc(fw*s), trunc(fh*s)), s = min(vw/fw, vh/fh), never larger than
\* the viewport, placed at ((vw - w) div 2, (vh - h) div 2); a 4000x3000 frame
\* in an 800x800 viewport is drawn 800x600 at (0, 100).
C11_DrawRectangle ==
    (lastRender # NoRender /\ lastRender[1].drawn) =>
        LET r == lastRender[1].rect
            sz == textureSizes[lastRender[1].index + 1]
        IN  /\ r = FitRect(sz[1], sz[2], windowWidth, windowHeight)
            /\ r.w <= windowWidth
            /\ r.h <= windowHeight
            /\ (sz = <<4000, 3000>> /\ <<windowWidth, windowHeight>> = <<800, 800>>)
                  => r = [x |-> 0, y |-> 100, w |-> 800, h |-> 600]

\* the step being taken called renderCurrentFrame() for a missing frame
SkippedDraw == lastRender' # NoRender /\ ~lastRender'[1].drawn

\* C12: a draw requested for a missing frame is a no-op: the window keeps
\* showing what it showed, the index stays on the missing frame, isPlaying and
\* running keep their values, and the clock state is what the requesting step
\* alone makes it (untouched by a manual step, lastFrameTime = now and the
\* advance counted by a firing tick).
C12_MissingFrameDrawIsNoOp ==
    [][SkippedDraw =>
         /\ screen' = screen
         /\ currentIndex' = lastRender'[1].index
         /\ playing' = playing
         /\ running' = running
         /\ IF TickStep
            THEN /\ lastFrameTime' = clock'
                 /\ frameCount' \in {frameCount + 1, 0}
            ELSE UNCHANGED <<lastFrameTime, frameCount, fpsTimer>>]_vars

\* a manual step onto a frame that failed to decode: the draw was skipped and
\* the window still shows the frame presented before
C12_Witness ==
    /\ lastEvent = "RIGHT"
    /\ lastRender # NoRender
    /\ ~lastRender[1].drawn
    /\ textures[currentIndex + 1] = "null"
    /\ screen # NoScreen
    /\ screen[1] # currentIndex

\* C13: after a resize event the viewport holds the window's new size before
\* the next draw: every draw computes its rectangle from the size the window has.
C13_ViewportFollowsResize ==
    (lastRender # NoRender /\ lastRender[1].drawn) =>
        <<windowWidth, windowHeight>> = hostSize

\* C14: the frame store is written only outside the loop: it is loaded before
\* the first iteration and released only after the last; no step of the loop,
\* entering or leaving it included, changes the sequence length or a handle.
C14_StoreFixedDuringLoop ==
    [][/\ (InLoop \/ InLoop') =>
            /\ UNCHANGED <<imagePaths, textures, textureSizes>>
            /\ cleanupCalls' = 0
       /\ (textures' # textures \/ imagePaths' # imagePaths) => pc \in {"start", "exit"}]_vars

\* the loop is about to end after ticks, events and a quit, and the three
\* slots are as the loader left them: some decoded, some not, none destroyed
C14_Witness ==
    /\ pc = "loop"
    /\ ~running
    /\ lastAdvanceAt # NoAdvance
    /\ Len(textures) = MaxImages
    /\ Live(textures) # {}
    /\ warnings = MaxImages - Cardinality(Live(textures))
    /\ warnings > 0
    /\ \A i \in 1..Len(textures) : texDestroys[i] = 0

\* C15: every Quit eventually stops the main loop: once running is false in the
\* loop, the rest of the iteration ends, the test at the top of the next
\* iteration finds running false and leaves the loop without starting another
\* iteration, and run() returns.
C15_QuitStopsLoop ==
    /\ (InLoop /\ ~running) ~> (pc = "exit")
    /\ [][(pc = "loop" /\ ~running) => pc' = "exit"]_vars
    /\ [][(InLoop /\ ~running) => running' = FALSE]_vars

\* run() has returned after a quit handled while playing, the tick of that
\* last iteration having advanced the index once more
C15_Witness ==
    /\ pc = "exit"
    /\ ~running
    /\ playing
    /\ cleanupCalls = 0
    /\ lastAdvanceAt = <<clock>>
    /\ frameCount >= 1

\* C16: each input event is translated into at most one command: window-close
\* and Escape into Quit, Space into Toggle, Right into StepForward, Left into
\* StepBackward (both ignored while playing); any other event leaves
\* currentIndex, isPlaying and running unchanged.
C16_OneCommandPerEvent ==
    [][(pc = "poll" /\ lastEvent' # None) =>
         CASE lastEvent' \in {"QUIT", "ESCAPE"} ->
                  /\ running' = FALSE
                  /\ UNCHANGED <<currentIndex, playing>>
           [] lastEvent' = "SPACE" ->
                  /\ playing' = ~playing
                  /\ UNCHANGED <<currentIndex, running>>
           [] lastEvent' = "RIGHT" ->
                  /\ currentIndex' = IF playing THEN currentIndex
                                     ELSE (currentIndex + 1) % NumImages
                  /\ UNCHANGED <<playing, running>>
           [] lastEvent' = "LEFT" ->
                  /\ currentIndex' = IF playing THEN currentIndex
                                     ELSE (currentIndex + NumImages - 1) % NumImages
                  /\ UNCHANGED <<playing, running>>
           [] OTHER -> UNCHANGED <<currentIndex, playing, running>>]_vars

\* Escape was pressed while playing, after a manual step had moved the index:
\* running is false, the index and isPlaying are as they were
C16_Witness ==
    /\ pc = "poll"
    /\ lastEvent = "ESCAPE"
    /\ ~running
    /\ playing
    /\ currentIndex > 0

\* the step being taken is a manual step taken while paused
AcceptedStep == pc = "poll" /\ lastEvent' \in {"RIGHT", "LEFT"} /\ ~playing
\* the step being taken is a tick at which a whole interval has elapsed
DueTick ==
    /\ TickStep
    /\ (clock' - lastFrameTime) \div UnitsPerMs >= MsPerSecond \div targetFPS

C18_FpsAtLeastOne ==
    pc # "start" =>
        /\ targetFPS >= 1
        /\ MsPerSecond \div targetFPS >= 0
        /\ pc # "crashed"

\* C19: the interval is 1000 div F, which is 0 for every F > 1000; with such a
\* rate every tick taken while playing fires an advance, whatever time has
\* elapsed since the last one.
C19_EveryTickFiresAbove1000 ==
    [][(TickStep /\ targetFPS > MsPerSecond) =>
         /\ MsPerSecond \div targetFPS = 0
         /\ Fired
         /\ currentIndex' = (currentIndex + 1) % NumImages
         /\ lastFrameTime' = clock']_vars

\* at 1001 frames per second two ticks have fired with no time elapsed at all
C19_Witness ==
    /\ targetFPS = MsPerSecond + 1
    /\ pc = "loop"
    /\ clock = 0
    /\ frameCount = 2
    /\ lastAdvanceAt = <<0>>
    /\ lastRender # NoRender

\* C20: lastFrameTime is changed only by a firing advance; toggles, manual
\* steps and time spent paused leave it as it is, so a tick (the first one
\* after a toggle from paused to playing included) fires whenever at least the
\* interval has elapsed since the last clock-driven advance or the loop start,
\* however recent the toggle or the last manual step.
C20_LastFrameTimeOnlyByAdvance ==
    [][/\ (InLoop /\ lastFrameTime' # lastFrameTime) => (TickStep /\ Fired)
       /\ (TickStep /\ (clock' - lastFrameTime) \div UnitsPerMs
                         >= MsPerSecond \div targetFPS)
            => (Fired /\ lastFrameTime' = clock')]_vars

\* the first tick of the run came half a millisecond after a pause of one
\* SDL_Delay, hence at most that long after the toggle that started playback,
\* and fired; of the two images the first is current again, so a manual step
\* was drawn during the pause
C20_Witness ==
    /\ tickLog = <<<<Ms(DelayMs) + 1, TRUE>>>>
    /\ clock = Ms(DelayMs) + 1
    /\ lastFrameTime = clock
    /\ NumImages = 2
    /\ currentIndex = 0
    /\ playing

====
